---- MODULE Spec2Model ----
(***************************************************************************)
(* piNetMon: the detection-and-dispatch pipeline of the Raspberry Pi       *)
(* network monitor.                                                        *)
(*                                                                         *)
(*   Spec        CloudDataManager / AzureIoTClient (cloud_integration.py): *)
(*               the bounded offline upload queue, with the coroutines of  *)
(*               upload_sensor_data interleaved at their await points.     *)
(*   SpecDetect  SimpleThresholdDetector.detect (ai_models.py,             *)
(*               local_ai_model.py) on every snapshot.                     *)
(*   SpecConfig  update_thresholds and the remote configuration paths of   *)
(*               PiNetworkMonitor (main.py) that lead to it.               *)
(*   SpecCycle   PiNetworkMonitor.collect_and_process (main.py), stage by  *)
(*               stage, with the configuration handlers running where the  *)
(*               coroutine awaits.                                         *)
(*   SpecLoop    PiNetworkMonitor.monitoring_loop and shutdown (main.py):  *)
(*               the cycles one after the other and the stop flag.         *)
(*   SpecCommands                                                          *)
(*               the same with the callbacks of the IoT Hub client: the    *)
(*               collect_now command, direct methods, twin patches.        *)
(*   SpecML      AnomalyDetector (ai_models.py, local_ai_model.py): the    *)
(*               model files, the constructor, predict and train.          *)
(***************************************************************************)
EXTENDS Integers, Sequences, FiniteSets, TLC

\* Capacity of upload_queue. The program sets 100 (cloud_integration.py:240);
\* the model runs the same code with a small capacity.
max_queue_size == 2

\* Number of payloads handed to upload_sensor_data in one behaviour.
MaxPayloads == 4

Payloads == 1..MaxPayloads

\* Outcomes of the SDK call client.send_message awaited by send_telemetry.
SendOutcomes == {"ok", "transport_error", "timeout"}

VARIABLES
    is_connected,   \* AzureIoTClient.is_connected
    upload_queue,   \* CloudDataManager.upload_queue
    pc,             \* per upload_sensor_data call: where its coroutine is
    inflight,       \* per call: the payload its _flush_queue popped last, 0 if none
    success,        \* per call: the value upload_sensor_data returned
    log,            \* per call: the log record upload_sensor_data produced for its payload
    handed,         \* payloads given to client.send_message, in call order
    delivered,      \* payloads for which client.send_message completed
    enqueued,       \* payloads appended to upload_queue, in append order
    counted,        \* per call: the counter collect_and_process incremented for it
    stats           \* PiNetworkMonitor.stats, the four counters

dispatchVars == <<is_connected, upload_queue, pc, inflight, success, log,
                  handed, delivered, enqueued, counted, stats>>

VARIABLES
    threshold_detector, \* PiNetworkMonitor.threshold_detector.thresholds (ai_models class)
    thresholds,         \* thresholds of a local_ai_model.SimpleThresholdDetector
    local_ai_enabled,   \* PiNetworkMonitor.local_ai_enabled
    cloud_ai_enabled,   \* PiNetworkMonitor.cloud_ai_enabled
    detect_in,          \* the snapshot of the last detect call
    detect_out,         \* what that call did: the detector, raised or (is_anomaly, violations)
    handler_out         \* how the last remote configuration handler ended

detectVars == <<threshold_detector, thresholds, local_ai_enabled,
                cloud_ai_enabled, detect_in, detect_out, handler_out>>

VARIABLES
    services,       \* which of cloud_manager, cloud_ai_service, mongodb_storage exist
    cyc,            \* the collect_and_process call in progress: its stage and locals
    local_storage,  \* what save_sensor_data wrote for the current cycle
    upload_data,    \* the payload the current cycle built
    running,        \* PiNetworkMonitor.running
    config,         \* what _load_config found in config.json
    cmd             \* the collect_and_process call of a collect_now command

cycleVars == <<services, cyc, local_storage, upload_data, running, config,
               cmd>>

VARIABLES
    artifacts,      \* the model files on disk: model.onnx, scaler.onnx, model.pkl
    ml_detector,    \* the AnomalyDetector object: its class and attributes
    ml_out,         \* what the last call on the AnomalyDetector did
    fits            \* the fits train has made, and the last that train returned from

mlVars == <<artifacts, ml_detector, ml_out, fits>>

vars == <<dispatchVars, detectVars, cycleVars, mlVars>>

----------------------------------------------------------------------------
\* CloudDataManager and AzureIoTClient

\* upload_sensor_data, line 255: room left in the queue.
CanEnqueue_inclusive(q) == Len(q) <= max_queue_size

CanEnqueue(q) == Len(q) < max_queue_size

\* upload_sensor_data, line 256: upload_queue.append(data).
Enqueue_front(q, d) == <<d>> \o q

Enqueue(q, d) == Append(q, d)

\* _flush_queue, line 277: upload_queue.pop(0), as <<popped, rest>>.
PopFront_last(q) == <<q[Len(q)], SubSeq(q, 1, Len(q) - 1)>>

PopFront_peek(q) == <<Head(q), q>>

PopFront(q) == <<Head(q), Tail(q)>>

\* _flush_queue, line 276: the loop condition.
FlushContinues_ignoring_flag(q, connected) == q # <<>>

FlushContinues(q, connected) == q # <<>> /\ connected

\* upload_sensor_data, line 267: the condition under which the queue is
\* flushed after the call's own send.
StartsFlush_any_result(r, q) == q # <<>>

StartsFlush(r, q) == r = "True" /\ q # <<>>

\* send_telemetry, lines 77-94: what the coroutine does with the outcome of
\* client.send_message: "True", "False", or "raise" when the exception leaves it.
SendTelemetryResult_uncaught(outcome) ==
    IF outcome = "ok" THEN "True" ELSE "raise"

SendTelemetryResult(outcome) ==
    IF outcome = "ok" THEN "True" ELSE "False"

\* upload_sensor_data, lines 257 and 260: the log records of the two
\* disconnected branches.
AddedToQueueLog == "warning: Added to queue"

QueueFullLog_silent == "none"

QueueFullLog == "error: Upload queue full"

\* collect_and_process, lines 443-447: the counter the caller increments.
CountedCounter(ok) ==
    IF ok = "True" THEN "cloud_uploads" ELSE "failed_uploads"

CountUpload_reset(st, ok) ==
    IF ok = "True" THEN [st EXCEPT !.cloud_uploads = @ + 1]
                   ELSE [st EXCEPT !.failed_uploads = @ + 1,
                                   !.cloud_uploads = 0]

CountUpload(st, ok) == [st EXCEPT ![CountedCounter(ok)] = @ + 1]

\* upload_sensor_data returns `ok` to collect_and_process, which counts it
\* before it reaches another await.
Return(c, ok) ==
    /\ pc' = [pc EXCEPT ![c] = "returned"]
    /\ success' = [success EXCEPT ![c] = ok]
    /\ counted' = [counted EXCEPT ![c] = CountedCounter(ok)]
    /\ stats' = CountUpload(stats, ok)

\* An exception leaves upload_sensor_data: collect_and_process skips lines
\* 444-447 and lands in its handler at line 464.
Raise(c) ==
    /\ pc' = [pc EXCEPT ![c] = "raised"]
    /\ UNCHANGED <<success, counted, stats>>

\* _flush_queue from its loop condition (line 276) to its next await, run by
\* call c; when the loop ends upload_sensor_data returns success (line 270).
FlushLoop(c) ==
    IF FlushContinues(upload_queue, is_connected)
    THEN LET popped == PopFront(upload_queue) IN
         /\ upload_queue' = popped[2]
         /\ inflight' = [inflight EXCEPT ![c] = popped[1]]
         /\ IF is_connected
            THEN \* send_telemetry reaches client.send_message (line 88)
                 /\ handed' = Append(handed, popped[1])
                 /\ pc' = [pc EXCEPT ![c] = "flush_send"]
            ELSE \* send_telemetry returns False at line 75; on to the sleep
                 /\ handed' = handed
                 /\ pc' = [pc EXCEPT ![c] = "flush_sleep"]
         /\ UNCHANGED <<success, counted, stats>>
    ELSE /\ Return(c, "True")
         /\ UNCHANGED <<upload_queue, inflight, handed>>

\* upload_sensor_data(data) is called with payload c (lines 253-264) and runs
\* to its first await or to its return.
Upload(c) ==
    /\ pc[c] = "idle"
    /\ \A d \in Payloads : d < c => pc[d] # "idle"
    /\ IF ~is_connected
       THEN /\ IF CanEnqueue(upload_queue)
               THEN /\ upload_queue' = Enqueue(upload_queue, c)
                    /\ enqueued' = Append(enqueued, c)
                    /\ log' = [log EXCEPT ![c] = AddedToQueueLog]
               ELSE /\ log' = [log EXCEPT ![c] = QueueFullLog]
                    /\ UNCHANGED <<upload_queue, enqueued>>
            /\ Return(c, "False")
            /\ UNCHANGED handed
       ELSE /\ handed' = Append(handed, c)
            /\ pc' = [pc EXCEPT ![c] = "send"]
            /\ UNCHANGED <<upload_queue, enqueued, log, success, counted, stats>>
    /\ UNCHANGED <<is_connected, inflight, delivered>>
    /\ UNCHANGED <<detectVars, cycleVars, mlVars>>

\* The await of line 264 ends: send_telemetry finishes for the call's own
\* payload, then lines 267-270.
SendDone(c, outcome) ==
    /\ pc[c] = "send"
    /\ LET r == SendTelemetryResult(outcome) IN
       /\ delivered' = IF outcome = "ok" THEN delivered \cup {c} ELSE delivered
       /\ log' = [log EXCEPT ![c] = IF outcome = "ok"
                                      THEN "info: Telemetry sent"
                                      ELSE "error: Failed to send telemetry"]
       /\ IF r = "raise"
          THEN /\ Raise(c)
               /\ UNCHANGED <<upload_queue, inflight, handed>>
          ELSE IF StartsFlush(r, upload_queue)
          THEN FlushLoop(c)
          ELSE /\ Return(c, r)
               /\ UNCHANGED <<upload_queue, inflight, handed>>
    /\ UNCHANGED <<is_connected, enqueued>>
    /\ UNCHANGED <<detectVars, cycleVars, mlVars>>

\* The await of line 278 ends: send_telemetry finishes for a queued payload;
\* its result is not looked at, and the coroutine sleeps (line 279).
FlushSendDone(c, outcome) ==
    /\ pc[c] = "flush_send"
    /\ LET r == SendTelemetryResult(outcome) IN
       /\ delivered' = IF outcome = "ok" THEN delivered \cup {inflight[c]}
                                          ELSE delivered
       /\ IF r = "raise"
          THEN Raise(c)
          ELSE /\ pc' = [pc EXCEPT ![c] = "flush_sleep"]
               /\ UNCHANGED <<success, counted, stats>>
    /\ UNCHANGED <<is_connected, upload_queue, inflight, log, handed, enqueued>>
    /\ UNCHANGED <<detectVars, cycleVars, mlVars>>

\* The pacing sleep of line 279 ends: back to the loop condition.
FlushSleepDone(c) ==
    /\ pc[c] = "flush_sleep"
    /\ FlushLoop(c)
    /\ UNCHANGED <<is_connected, log, delivered, enqueued>>
    /\ UNCHANGED <<detectVars, cycleVars, mlVars>>

\* AzureIoTClient.connect succeeds (line 43).
Connect ==
    /\ ~is_connected
    /\ is_connected' = TRUE
    /\ UNCHANGED <<upload_queue, pc, inflight, success, log, handed,
                   delivered, enqueued, counted, stats>>
    /\ UNCHANGED <<detectVars, cycleVars, mlVars>>

\* AzureIoTClient.disconnect (lines 58-60).
Disconnect ==
    /\ is_connected
    /\ is_connected' = FALSE
    /\ UNCHANGED <<upload_queue, pc, inflight, success, log, handed,
                   delivered, enqueued, counted, stats>>
    /\ UNCHANGED <<detectVars, cycleVars, mlVars>>

\* AzureIoTClient.__init__ (line 30), CloudDataManager.__init__ (lines 239-240)
\* and PiNetworkMonitor.__init__ (lines 74-80).
DispatchInit ==
    /\ is_connected = FALSE
    /\ upload_queue = <<>>
    /\ pc = [c \in Payloads |-> "idle"]
    /\ inflight = [c \in Payloads |-> 0]
    /\ success = [c \in Payloads |-> "none"]
    /\ log = [c \in Payloads |-> "none"]
    /\ handed = <<>>
    /\ delivered = {}
    /\ enqueued = <<>>
    /\ counted = [c \in Payloads |-> "none"]
    /\ stats = [total_readings |-> 0, anomalies_detected |-> 0,
                cloud_uploads |-> 0, failed_uploads |-> 0]


----------------------------------------------------------------------------
\* SimpleThresholdDetector

\* The metrics the detectors look at, in the order detect checks them.
ThresholdMetrics ==
    <<"cpu_temperature", "cpu_usage_percent", "memory_percent", "disk_percent">>

MetricNames == {ThresholdMetrics[i] : i \in 1..Len(ThresholdMetrics)}

\* A threshold entry is a dict with some of the keys min and max.
Bound(lo, hi) == [b \in {"min", "max"} |-> IF b = "min" THEN lo ELSE hi]

\* SimpleThresholdDetector.__init__ (ai_models.py:423-428 and
\* local_ai_model.py:181-186 set the same values).
DefaultThresholds ==
    [m \in MetricNames |->
        CASE m = "cpu_temperature"   -> Bound(0, 85)
          [] m = "cpu_usage_percent" -> Bound(0, 95)
          [] m = "memory_percent"    -> Bound(0, 90)
          [] m = "disk_percent"      -> Bound(0, 95)]

\* Metric values of the model: below every min, inside every range, above
\* every max.
Values == {-5, 50, 100}

\* One metric of a snapshot: a number, None (get_cpu_temperature found no
\* sensor) or missing (its key, or its whole group, is not in the dict).
Missing == [kind |-> "missing", v |-> 0]

NoneReading == [kind |-> "None", v |-> 0]

Num(x) == [kind |-> "value", v |-> x]

Numbers == {Num(x) : x \in Values}

\* psutil percentages (cpu, memory, disk) are never negative.
Percentages == {Num(x) : x \in {v \in Values : v >= 0}}

\* SensorCollector.collect_all_data, sensor_collector.py:171-213: the shapes a
\* snapshot takes as sensors are enabled or disabled.
Snapshots ==
    [cpu_temperature   : Numbers \cup {NoneReading, Missing},
     cpu_usage_percent : Percentages \cup {Missing},
     memory_percent    : Percentages \cup {Missing},
     disk_percent      : Percentages \cup {Missing},
     network           : {Num(50), Missing}]

\* The group a metric lives in is present in the snapshot.
HasCpu(S) ==
    S.cpu_temperature.kind # "missing" \/ S.cpu_usage_percent.kind # "missing"

HasGroup(S, m) ==
    IF m \in {"cpu_temperature", "cpu_usage_percent"}
    THEN HasCpu(S)
    ELSE S[m].kind # "missing"

\* No detect call yet.
NoSnapshot == [cpu_temperature |-> Missing, cpu_usage_percent |-> Missing,
               memory_percent |-> Missing, disk_percent |-> Missing,
               network |-> Missing]

NoDetect == [detector |-> "none", raised |-> FALSE, is_anomaly |-> FALSE,
             violations |-> <<>>]

\* Result of a detect call.
Raised(who) == [detector |-> who, raised |-> TRUE, is_anomaly |-> FALSE,
                violations |-> <<>>]

Returned(who, viol) == [detector |-> who, raised |-> FALSE,
                        is_anomaly |-> Len(viol) > 0, violations |-> viol]

\* dict.get(key, 0) of a metric, as ai_models.detect reads every metric
\* (ai_models.py:436, 441, 446, 451): a missing key reads 0.
GetOrZero(r) == IF r.kind = "missing" THEN Num(0) ELSE r

\* ai_models.SimpleThresholdDetector.detect, ai_models.py:431-455. Every check
\* is `value > thresholds[m]['max']`; it raises KeyError for a missing group
\* or bound and TypeError when the value is None.
AiCheckRaises(S, T, m) ==
    \/ ~HasGroup(S, m)
    \/ "max" \notin DOMAIN T[m]
    \/ GetOrZero(S[m]).kind = "None"

AiCheckViolates(S, T, m) == GetOrZero(S[m]).v > T[m]["max"]

RECURSIVE AiDetectFrom(_, _, _, _)
AiDetectFrom(S, T, i, viol) ==
    IF i > Len(ThresholdMetrics)
    THEN Returned("ai_models", viol)
    ELSE LET m == ThresholdMetrics[i] IN
         IF AiCheckRaises(S, T, m)
         THEN Raised("ai_models")
         ELSE AiDetectFrom(S, T, i + 1,
                  IF AiCheckViolates(S, T, m) THEN Append(viol, m) ELSE viol)

AiDetect(S, T) == AiDetectFrom(S, T, 1, <<>>)

\* local_ai_model.SimpleThresholdDetector.detect, local_ai_model.py:189-228.
\* The temperature is read with .get('temperature') and checked against min
\* and max when it is not None; the other three are checked against max only.
LocalCheckRaises(S, T, m) ==
    \/ ~HasGroup(S, m)
    \/ IF m = "cpu_temperature"
       THEN /\ S[m].kind = "value"
            /\ \/ "min" \notin DOMAIN T[m]
               \/ (S[m].v >= T[m]["min"] /\ "max" \notin DOMAIN T[m])
       ELSE "max" \notin DOMAIN T[m]

LocalCheckViolates(S, T, m) ==
    IF m = "cpu_temperature"
    THEN /\ S[m].kind = "value"
         /\ (S[m].v < T[m]["min"] \/ S[m].v > T[m]["max"])
    ELSE GetOrZero(S[m]).v > T[m]["max"]

RECURSIVE LocalDetectFrom(_, _, _, _)
LocalDetectFrom(S, T, i, viol) ==
    IF i > Len(ThresholdMetrics)
    THEN Returned("local_ai_model", viol)
    ELSE LET m == ThresholdMetrics[i] IN
         IF LocalCheckRaises(S, T, m)
         THEN Raised("local_ai_model")
         ELSE LocalDetectFrom(S, T, i + 1,
                  IF LocalCheckViolates(S, T, m) THEN Append(viol, m) ELSE viol)

LocalDetect(S, T) == LocalDetectFrom(S, T, 1, <<>>)

\* local_ai_model.SimpleThresholdDetector.update_thresholds,
\* local_ai_model.py:230-238: self.thresholds.update(new_thresholds).
update_thresholds(T, P) ==
    [m \in DOMAIN T \cup DOMAIN P |-> IF m \in DOMAIN P THEN P[m] ELSE T[m]]

\* Partial threshold maps sent to the detector: some metrics, each with some
\* of its bounds.
PatchMetrics == {"cpu_temperature", "memory_percent"}

PatchEntries ==
    {[b \in D |-> IF b = "min" THEN 10 ELSE 70] : D \in SUBSET {"min", "max"}}

PartialMaps == UNION {[D -> PatchEntries] : D \in SUBSET PatchMetrics}

\* threshold_detector.detect(sensor_data) on the orchestrator's detector.
Detect(S) ==
    /\ detect_in' = S
    /\ detect_out' = AiDetect(S, threshold_detector)
    /\ UNCHANGED <<threshold_detector, thresholds, local_ai_enabled,
                   cloud_ai_enabled, handler_out>>
    /\ UNCHANGED <<dispatchVars, cycleVars, mlVars>>

\* detect(data) on a local_ai_model detector.
DetectLocal(S) ==
    /\ detect_in' = S
    /\ detect_out' = LocalDetect(S, thresholds)
    /\ UNCHANGED <<threshold_detector, thresholds, local_ai_enabled,
                   cloud_ai_enabled, handler_out>>
    /\ UNCHANGED <<dispatchVars, cycleVars, mlVars>>

\* update_thresholds(P) on a local_ai_model detector; detect_in and detect_out
\* describe the last detect call since the thresholds were set.
UpdateThresholds(P) ==
    /\ thresholds' = update_thresholds(thresholds, P)
    /\ detect_in' = NoSnapshot
    /\ detect_out' = NoDetect
    /\ UNCHANGED <<threshold_detector, local_ai_enabled, cloud_ai_enabled,
                   handler_out>>
    /\ UNCHANGED <<dispatchVars, cycleVars, mlVars>>

\* The classes named SimpleThresholdDetector: only the one of
\* local_ai_model.py defines update_thresholds (local_ai_model.py:230;
\* ai_models.py:418-455 has __init__ and detect alone).
HasUpdateThresholds(cls) == cls = "local_ai_model"

\* main.py:20 imports the class the orchestrator constructs at main.py:58.
OrchestratorDetectorClass == "ai_models"

EmptyMap == [m \in {} |-> Bound(0, 0)]

\* PiNetworkMonitor._update_configuration, main.py:197-212, reached from a
\* config_update message (main.py:137-138; an exception ends in
\* AzureIoTClient._handle_message, cloud_integration.py:126) and from the
\* update_config method (main.py:186-188; it ends in _handle_method_request,
\* cloud_integration.py:157). has_thr: the update has a 'thresholds' key.
UpdateConfiguration(path, has_thr, P) ==
    /\ path \in {"config_update", "update_config"}
    /\ has_thr \/ P = EmptyMap
    /\ IF has_thr /\ ~HasUpdateThresholds(OrchestratorDetectorClass)
       THEN /\ handler_out' = [path |-> path, error |-> "AttributeError"]
            /\ UNCHANGED threshold_detector
       ELSE /\ handler_out' = [path |-> path, error |-> "none"]
            /\ threshold_detector' =
                  IF has_thr THEN update_thresholds(threshold_detector, P)
                             ELSE threshold_detector
    /\ UNCHANGED <<thresholds, local_ai_enabled, cloud_ai_enabled,
                   detect_in, detect_out>>
    /\ UNCHANGED <<dispatchVars, cycleVars, mlVars>>

\* A desired-state patch: ai_models.local.enabled, ai_models.cloud.enabled
\* ("absent" when the key is not in the patch) and
\* ai_models.local.anomaly_detection.thresholds.
Flag == {"absent", "True", "False"}

ApplyFlag(old, f) == IF f = "absent" THEN old ELSE f = "True"

\* PiNetworkMonitor._apply_config_update, main.py:234-282, reached from the
\* updateConfig method (main.py:164-178) and from a twin patch
\* (main.py:214-232); both catch what it raises. The local flag is set
\* (line 257) before the thresholds are touched (line 262), the cloud flag
\* (line 268) after.
ApplyConfigUpdate(path, local, cloud, has_thr, P) ==
    /\ path \in {"updateConfig", "twin_patch"}
    /\ has_thr \/ P = EmptyMap
    /\ local_ai_enabled' = ApplyFlag(local_ai_enabled, local)
    /\ IF has_thr /\ ~HasUpdateThresholds(OrchestratorDetectorClass)
       THEN /\ handler_out' = [path |-> path, error |-> "AttributeError"]
            /\ UNCHANGED <<threshold_detector, cloud_ai_enabled>>
       ELSE /\ handler_out' = [path |-> path, error |-> "none"]
            /\ threshold_detector' =
                  IF has_thr THEN update_thresholds(threshold_detector, P)
                             ELSE threshold_detector
            /\ cloud_ai_enabled' = ApplyFlag(cloud_ai_enabled, cloud)
    /\ UNCHANGED <<thresholds, detect_in, detect_out>>
    /\ UNCHANGED <<dispatchVars, cycleVars, mlVars>>

\* PiNetworkMonitor.__init__, main.py:58-65, with the flags at their defaults.
DetectInit ==
    /\ threshold_detector = DefaultThresholds
    /\ thresholds = DefaultThresholds
    /\ local_ai_enabled = TRUE
    /\ cloud_ai_enabled = FALSE
    /\ detect_in = NoSnapshot
    /\ detect_out = NoDetect
    /\ handler_out = [path |-> "none", error |-> "none"]

\* The threshold detectors on every snapshot.
NextDetect ==
    \/ \E S \in Snapshots : Detect(S)
    \/ \E S \in Snapshots : DetectLocal(S)
    \/ \E P \in PartialMaps : UpdateThresholds(P)

\* Every way a partial threshold map reaches a detector.
NextConfig ==
    \/ \E P \in PartialMaps : UpdateThresholds(P)
    \/ \E path \in {"config_update", "update_config"}, has_thr \in BOOLEAN,
          P \in PartialMaps : UpdateConfiguration(path, has_thr, P)
    \/ \E path \in {"updateConfig", "twin_patch"}, local \in Flag,
          cloud \in Flag, has_thr \in BOOLEAN, P \in PartialMaps :
          ApplyConfigUpdate(path, local, cloud, has_thr, P)

----------------------------------------------------------------------------
\* AnomalyDetector

\* The minimum number of samples of a training set (local_ai_model.py:89,
\* main.py:400).
MinSamples == 10

\* Sizes of the training sets passed to train.
SampleCounts == {0, MinSamples - 1, MinSamples}

\* The labels IsolationForest.predict and its ONNX export emit: 1 for an
\* inlier, -1 for an outlier.
Inlier == 1

Outlier == -1

Labels == {Inlier, Outlier}

\* What running the ONNX sessions does: an exception, or a label.
OnnxRuns ==
    {[raised |-> TRUE, label |-> 0]}
    \cup {[raised |-> FALSE, label |-> l] : l \in Labels}

\* The two classes named AnomalyDetector.
DetectorClasses == {"ai_models", "local_ai_model"}

\* What a model file holds: nothing, a loadable artifact or bytes that do not
\* load. model.pkl holds the dict save_model writes or the bare estimator
\* train_and_save_models writes (ai_models.py:148-149).
OnnxFiles == {"absent", "ok", "corrupt"}

PickleFiles == {"absent", "dict", "bare", "corrupt"}

\* pickle_gen says which fit model.pkl holds: 0 for a model that came with
\* the deployment, k for the k-th fit of train.
NoArtifacts == [onnx_model |-> "absent", onnx_scaler |-> "absent",
                pickle |-> "absent", pickle_gen |-> 0]

\* The attributes before __init__ has run.
NoDetector ==
    [built |-> FALSE, cls |-> "ai_models", use_onnx |-> FALSE,
     onnx_model |-> FALSE, onnx_scaler |-> FALSE,
     model |-> "None", scaler |-> "None", model_gen |-> 0, scaler_gen |-> 0]

\* Number of fits made by train in one behaviour.
MaxTrains == 1

NoFits == [made |-> 0, returned |-> 0, n |-> 0]

\* No call yet. A call fills in what it was given and what it did: predict
\* its input, path, label and result; train the number of samples; the
\* constructor its use_onnx argument and whether each session was created;
\* train and train_and_save_models whether model.pkl was written and how far
\* an ONNX export got ("not_attempted", "none", "scaler", "both").
NoCall == [op |-> "none", raised |-> FALSE, is_anomaly |-> FALSE, score |-> 0,
           path |-> "none", label |-> 0, n |-> 0, input |-> NoSnapshot,
           exported |-> "not_attempted", saved |-> FALSE,
           use_onnx |-> FALSE, model_ok |-> FALSE, scaler_ok |-> FALSE]

\* AnomalyDetector._initialize_model, ai_models.py:243-251: a new model and a
\* new scaler, neither of them fitted.
InitializeModel(d) ==
    [d EXCEPT !.model = "unfitted", !.scaler = "unfitted",
              !.model_gen = 0, !.scaler_gen = 0]

\* AnomalyDetector.load_model, ai_models.py:401-415: the dict of model.pkl, or
\* _initialize_model when reading it raises.
LoadModel(d, file, gen) ==
    IF file = "dict"
    THEN [d EXCEPT !.model = "fitted", !.scaler = "fitted",
                   !.model_gen = gen, !.scaler_gen = gen]
    ELSE InitializeModel(d)

\* ai_models.py:226-232: the two InferenceSession calls. model_ok and
\* scaler_ok say whether each call returned; the second is not made when the
\* first raises.
LoadOnnx(d, model_ok, scaler_ok) ==
    IF model_ok /\ scaler_ok
    THEN [d EXCEPT !.onnx_model = TRUE, !.onnx_scaler = TRUE]
    ELSE [d EXCEPT !.onnx_model = model_ok, !.use_onnx = FALSE]

\* ai_models.py:235: the condition of the fallback to model.pkl.
NeedsPickle_always(d) == TRUE

NeedsPickle(d) == ~d.use_onnx \/ ~d.onnx_model

\* ai_models.py:235-239 and local_ai_model.py:43-47.
LoadPickleOrInitialize(d, file, gen) ==
    IF file # "absent" THEN LoadModel(d, file, gen) ELSE InitializeModel(d)

\* AnomalyDetector.__init__, ai_models.py:205-241 and local_ai_model.py:22-49.
NewDetector(cls, use_onnx, files, model_ok, scaler_ok) ==
    LET d0 == [NoDetector EXCEPT !.built = TRUE, !.cls = cls,
                                 !.use_onnx = use_onnx]
        d1 == IF /\ cls = "ai_models"
                 /\ use_onnx
                 /\ files.onnx_model # "absent"
                 /\ files.onnx_scaler # "absent"
              THEN LoadOnnx(d0, model_ok, scaler_ok)
              ELSE d0
    IN IF cls = "local_ai_model" \/ NeedsPickle(d1)
       THEN LoadPickleOrInitialize(d1, files.pickle, files.pickle_gen)
       ELSE d1

\* The ONNX sessions are the backend predict uses (ai_models.py:302).
OnnxLive(d) == d.use_onnx /\ d.onnx_model /\ d.onnx_scaler

\* The sklearn objects are fitted.
PickleLive(d) == d.model = "fitted" /\ d.scaler = "fitted"

\* AnomalyDetector.extract_features, ai_models.py:253-263: data['cpu'],
\* data['memory'], data['disk'] and data['network'] raise KeyError when the
\* group is absent; a missing key reads 0.0 and a None temperature 0.0.
ExtractRaises(S) ==
    \/ ~HasCpu(S)
    \/ S.memory_percent.kind = "missing"
    \/ S.disk_percent.kind = "missing"
    \/ S.network.kind = "missing"

FeatureOf(r) == IF r.kind = "value" THEN r.v ELSE 0

extract_features(S) ==
    <<FeatureOf(S.cpu_temperature), FeatureOf(S.cpu_usage_percent),
      FeatureOf(S.memory_percent), FeatureOf(S.disk_percent),
      FeatureOf(S.network)>>

\* ai_models.py:316: the boolean the ONNX path gives a label.
OnnxIsAnomaly(label) == label = -1 \/ label = 1

\* ai_models.py:336 and local_ai_model.py:136: the boolean the sklearn path
\* gives a label.
SklearnIsAnomaly(label) == label = -1

\* Results of predict.
PredictRaised(S, path) ==
    [NoCall EXCEPT !.op = "predict", !.raised = TRUE, !.path = path,
                   !.input = S]

PredictReturned(S, path, label, is_anomaly, score) ==
    [NoCall EXCEPT !.op = "predict", !.path = path, !.input = S,
                   !.label = label, !.is_anomaly = is_anomaly,
                   !.score = score]

\* The sklearn part of predict, ai_models.py:327-341 and
\* local_ai_model.py:124-140: (False, 0.0) when model or scaler is None,
\* NotFittedError from scaler.transform when they are not fitted.
SklearnPredict(d, S, label) ==
    IF d.model = "None" \/ d.scaler = "None"
    THEN PredictReturned(S, "sklearn", 0, FALSE, 0)
    ELSE IF d.scaler = "unfitted" \/ d.model = "unfitted"
    THEN PredictRaised(S, "sklearn")
    ELSE PredictReturned(S, "sklearn", label, SklearnIsAnomaly(label), 1)

\* The files the detector looks for: the artifacts the deployment put on disk
\* before the detector is constructed.
Deploy(files) ==
    /\ ~ml_detector.built
    /\ artifacts = NoArtifacts
    /\ files # NoArtifacts
    /\ artifacts' = files
    /\ UNCHANGED <<ml_detector, ml_out, fits>>
    /\ UNCHANGED <<dispatchVars, detectVars, cycleVars>>

\* train_and_save_models, ai_models.py:105-186: model.pkl is written first
\* (the bare estimator), then the ONNX export is tried; when the export raises
\* after scaler.onnx was written, model.onnx is not written.
TrainAndSaveModels(exported) ==
    /\ ~ml_detector.built
    /\ artifacts = NoArtifacts
    /\ artifacts' =
          CASE exported = "both"   -> [onnx_model |-> "ok", onnx_scaler |-> "ok",
                                       pickle |-> "bare", pickle_gen |-> 0]
            [] exported = "scaler" -> [onnx_model |-> "absent",
                                       onnx_scaler |-> "ok", pickle |-> "bare",
                                       pickle_gen |-> 0]
            [] exported = "none"   -> [onnx_model |-> "absent",
                                       onnx_scaler |-> "absent",
                                       pickle |-> "bare", pickle_gen |-> 0]
    /\ ml_out' = [NoCall EXCEPT !.op = "train_and_save_models",
                                !.exported = exported, !.saved = TRUE]
    /\ UNCHANGED <<ml_detector, fits>>
    /\ UNCHANGED <<dispatchVars, detectVars, cycleVars>>

\* AnomalyDetector(...): the constructor. A session whose file is corrupt
\* raises; one whose file is good may still raise (runtime exception).
Construct(cls, use_onnx, model_ok, scaler_ok) ==
    /\ ~ml_detector.built
    /\ model_ok => artifacts.onnx_model = "ok"
    /\ scaler_ok => artifacts.onnx_scaler = "ok" /\ model_ok
    /\ ml_detector' = NewDetector(cls, use_onnx, artifacts, model_ok, scaler_ok)
    /\ ml_out' = [NoCall EXCEPT !.op = "init", !.use_onnx = use_onnx,
                                !.model_ok = model_ok, !.scaler_ok = scaler_ok]
    /\ UNCHANGED <<artifacts, fits>>
    /\ UNCHANGED <<dispatchVars, detectVars, cycleVars>>

\* AnomalyDetector.extract_features(S).
ExtractFeatures(S) ==
    /\ ml_detector.built
    /\ ml_out' = [NoCall EXCEPT !.op = "extract_features", !.input = S,
                                !.raised = ExtractRaises(S)]
    /\ UNCHANGED <<artifacts, ml_detector, fits>>
    /\ UNCHANGED <<dispatchVars, detectVars, cycleVars>>

\* AnomalyDetector.predict(S), ai_models.py:297-341 and
\* local_ai_model.py:112-140. run is what the ONNX sessions do (raise, or emit
\* a label), label what the sklearn model emits.
Predict(S, run, label) ==
    /\ ml_detector.built
    /\ LET d == ml_detector IN
       IF d.cls = "local_ai_model"
       THEN /\ ml_out' = IF d.model = "None" \/ d.scaler = "None"
                         THEN PredictReturned(S, "sklearn", 0, FALSE, 0)
                         ELSE IF ExtractRaises(S)
                         THEN PredictRaised(S, "extract_features")
                         ELSE SklearnPredict(d, S, label)
            /\ UNCHANGED ml_detector
       ELSE IF ExtractRaises(S)
       THEN /\ ml_out' = PredictRaised(S, "extract_features")
            /\ UNCHANGED ml_detector
       ELSE IF OnnxLive(d) /\ ~run.raised
       THEN /\ ml_out' = PredictReturned(S, "onnx", run.label,
                                         OnnxIsAnomaly(run.label), 1)
            /\ UNCHANGED ml_detector
       ELSE IF OnnxLive(d)
       THEN /\ ml_detector' = [d EXCEPT !.use_onnx = FALSE]
            /\ ml_out' = SklearnPredict(d, S, label)
       ELSE /\ ml_out' = SklearnPredict(d, S, label)
            /\ UNCHANGED ml_detector
    /\ UNCHANGED <<artifacts, fits>>
    /\ UNCHANGED <<dispatchVars, detectVars, cycleVars>>

\* ai_models.py:272 and local_ai_model.py:89: the test that makes train
\* return at once.
TooFewSamples(cls, n) == IF cls = "ai_models" THEN n = 0 ELSE n < MinSamples

\* AnomalyDetector.train(training_data) with n samples, ai_models.py:265-295
\* and local_ai_model.py:82-110, when both fits succeed. self.scaler.fit
\* raises AttributeError when the scaler is None; save_model writes model.pkl
\* and nothing else, and ai_models catches what it raises while
\* local_ai_model does not.
Train(n, save_ok) ==
    /\ ml_detector.built
    /\ fits.made < MaxTrains
    /\ LET d == ml_detector
           g == fits.made + 1
           call == [NoCall EXCEPT !.op = "train", !.n = n]
       IN
       IF TooFewSamples(d.cls, n)
       THEN /\ ml_out' = call
            /\ UNCHANGED <<ml_detector, artifacts, fits>>
       ELSE IF d.scaler = "None" \/ d.model = "None"
       THEN /\ ml_out' = [call EXCEPT !.raised = TRUE]
            /\ UNCHANGED <<ml_detector, artifacts, fits>>
       ELSE LET raised == ~save_ok /\ d.cls = "local_ai_model" IN
            /\ ml_detector' = [d EXCEPT !.model = "fitted", !.scaler = "fitted",
                                        !.model_gen = g, !.scaler_gen = g]
            /\ artifacts' = IF save_ok
                            THEN [artifacts EXCEPT !.pickle = "dict",
                                                   !.pickle_gen = g]
                            ELSE artifacts
            /\ ml_out' = [call EXCEPT !.saved = save_ok, !.raised = raised]
            /\ fits' = IF raised THEN [fits EXCEPT !.made = g]
                                 ELSE [made |-> g, returned |-> g, n |-> n]
    /\ UNCHANGED <<dispatchVars, detectVars, cycleVars>>

\* The same call when self.model.fit raises (ai_models.py:287,
\* local_ai_model.py:105): self.scaler.fit has already refitted the scaler
\* in place (ai_models.py:283, local_ai_model.py:102), the model is the one
\* from before the call, nothing is saved and the exception leaves train.
TrainFitRaises(n) ==
    /\ ml_detector.built
    /\ fits.made < MaxTrains
    /\ ~TooFewSamples(ml_detector.cls, n)
    /\ ml_detector.scaler # "None" /\ ml_detector.model # "None"
    /\ LET g == fits.made + 1 IN
       /\ ml_detector' = [ml_detector EXCEPT !.scaler = "fitted",
                                             !.scaler_gen = g]
       /\ fits' = [fits EXCEPT !.made = g]
    /\ ml_out' = [NoCall EXCEPT !.op = "train", !.n = n, !.raised = TRUE]
    /\ UNCHANGED artifacts
    /\ UNCHANGED <<dispatchVars, detectVars, cycleVars>>

\* The process ends and a new one starts: the AnomalyDetector object is gone,
\* the files stay.
Restart ==
    /\ ml_detector.built
    /\ ml_detector' = NoDetector
    /\ ml_out' = [NoCall EXCEPT !.op = "restart"]
    /\ UNCHANGED <<artifacts, fits>>
    /\ UNCHANGED <<dispatchVars, detectVars, cycleVars>>

\* The snapshots given to the AnomalyDetector: every group present, the
\* temperature sensor not found, one group absent.
FeatureSnapshots ==
    {S \in Snapshots :
        /\ S.cpu_usage_percent = Num(50)
        /\ S.disk_percent = Num(50)
        /\ S.cpu_temperature \in {Num(50), NoneReading}
        /\ S.memory_percent \in {Num(50), Missing}
        /\ S.network \in {Num(50), Missing}}

MLInit ==
    /\ artifacts = NoArtifacts
    /\ ml_detector = NoDetector
    /\ ml_out = NoCall
    /\ fits = NoFits

NextML ==
    \/ \E files \in [onnx_model : OnnxFiles, onnx_scaler : OnnxFiles,
                     pickle : PickleFiles, pickle_gen : {0}] : Deploy(files)
    \/ \E exported \in {"both", "scaler", "none"} : TrainAndSaveModels(exported)
    \/ \E cls \in DetectorClasses, use_onnx, model_ok, scaler_ok \in BOOLEAN :
          Construct(cls, use_onnx, model_ok, scaler_ok)
    \/ \E S \in FeatureSnapshots : ExtractFeatures(S)
    \/ \E S \in FeatureSnapshots, run \in OnnxRuns, label \in Labels :
          Predict(S, run, label)
    \/ \E n \in SampleCounts, save_ok \in BOOLEAN : Train(n, save_ok)
    \/ \E n \in SampleCounts : TrainFitRaises(n)
    \/ Restart

----------------------------------------------------------------------------
\* PiNetworkMonitor.collect_and_process

\* Number of cycles in one behaviour.
MaxCycles == 2

\* The snapshots sampled in the cycles: every sensor on, the cpu usage and
\* the disk inside their ranges, the temperature sensor possibly absent.
CycleSnapshots ==
    {S \in Snapshots : /\ S.disk_percent = Num(50)
                       /\ S.cpu_usage_percent = Num(50)
                       /\ S.network = Num(50)
                       /\ S.memory_percent \in {Num(50), Num(100)}
                       /\ S.cpu_temperature \in {Num(50), Num(100), NoneReading}}

\* What ml_detector.predict does: raise, or return (is_anomaly, score).
PredictOutcomes == {"raise", "normal", "anomaly"}

MLDefault == [is_anomaly |-> FALSE, score |-> 0]

PredictValue(o) ==
    IF o = "anomaly" THEN [is_anomaly |-> TRUE, score |-> 2]
                     ELSE [is_anomaly |-> FALSE, score |-> 1]

\* collect_and_process, line 400: train is called when the history has at
\* least 10 rows.
TrainWanted_always(enough) == TRUE

TrainWanted(enough) == enough

\* collect_and_process, lines 391-408: the ML verdict of a cycle. first and
\* second are the outcomes of the two predict calls, enough says that
\* get_recent_data gave at least 10 rows, train_ok that train returned.
MLVerdict(enabled, first, enough, train_ok, second) ==
    IF ~enabled THEN MLDefault
    ELSE IF first # "raise" THEN PredictValue(first)
    ELSE IF TrainWanted(enough) /\ train_ok /\ second # "raise"
    THEN PredictValue(second)
    ELSE MLDefault

\* The calls lines 391-408 make for the same outcomes: how often predict,
\* get_recent_data and train were called, whether the history had at least
\* MinSamples rows, and whether the second predict returned.
NoMLCalls == [predict |-> 0, fetch |-> 0, train |-> 0, enough |-> FALSE,
              recovered |-> FALSE]

MLCalls(enabled, first, enough, train_ok, second) ==
    IF ~enabled THEN NoMLCalls
    ELSE IF first # "raise" THEN [NoMLCalls EXCEPT !.predict = 1]
    ELSE [predict   |-> IF TrainWanted(enough) /\ train_ok THEN 2 ELSE 1,
          fetch     |-> 1,
          train     |-> IF TrainWanted(enough) THEN 1 ELSE 0,
          enough    |-> enough,
          recovered |-> /\ TrainWanted(enough) /\ train_ok
                        /\ second # "raise"]

\* collect_and_process, line 410.
CombineVerdict_and(thr, ml) == thr /\ ml

CombineVerdict(thr, ml) == thr \/ ml

\* CloudAIService.analyze_sensor_data, ai_models.py:563-587: the dict it
\* returns for a prediction of the remote model ("none": no prediction).
\* AzureMLClient.predict returns response.json() (ai_models.py:476-504),
\* which need not be a dict: prediction.get (line 580) then raises
\* AttributeError ("not_a_dict").
CloudPredictions == {"none", "normal", "anomaly", "not_a_dict"}

NoCloudAnalysis == [present |-> FALSE, available |-> FALSE, is_anomaly |-> FALSE]

AnalyzeSensorData(prediction) ==
    [present |-> TRUE, available |-> prediction # "none",
     is_anomaly |-> prediction = "anomaly"]

\* collect_and_process, lines 432-441: the outbound payload.
NoPayload == [built |-> FALSE, sensor_data |-> NoSnapshot, is_anomaly |-> FALSE,
              ml_score |-> 0, threshold_violations |-> <<>>,
              cloud_analysis |-> NoCloudAnalysis]

BuildPayload(c) ==
    [built |-> TRUE, sensor_data |-> c.sensor_data, is_anomaly |-> c.is_anomaly,
     ml_score |-> c.ml.score, threshold_violations |-> c.violations,
     cloud_analysis |-> c.cloud_analysis]

NoRow == [attempted |-> FALSE, written |-> FALSE, is_anomaly |-> FALSE,
          anomaly_score |-> 0]

\* The locals of collect_and_process before its first statement.
FreshCycle(n) ==
    [stage |-> "sample", n |-> n, sensor_data |-> NoSnapshot,
     thr |-> FALSE, violations |-> <<>>, ml_ran |-> FALSE, ml |-> MLDefault,
     ml_calls |-> NoMLCalls,
     is_anomaly |-> FALSE, cloud_analysis |-> NoCloudAnalysis,
     cloud_verdict |-> "none", failed |-> "none"]

\* What config.json holds: a complete configuration, one without
\* azure.iot_hub.connection_string, or nothing json.load can read.
ConfigOutcomes == {"ok", "no_connection_string", "unreadable"}

\* PiNetworkMonitor.__init__ at main.py:46 with _load_config, main.py:84-93:
\* the exception of open or json.load is re-raised, leaves the constructor
\* (main.py:522) and main, and ends the process ("died").
LoadConfig(outcome) ==
    /\ cyc.stage = "startup"
    /\ config = "unloaded"
    /\ config' = outcome
    /\ cyc' = IF outcome = "unreadable" THEN [cyc EXCEPT !.stage = "died"]
                                        ELSE cyc
    /\ UNCHANGED <<services, local_storage, upload_data, running, cmd>>
    /\ UNCHANGED <<dispatchVars, detectVars, mlVars>>

\* PiNetworkMonitor.initialize_cloud, main.py:95-125. If line 98 raises
\* KeyError or connect raises, nothing after it runs and line 123 catches;
\* mongodb_storage exists when it is enabled.
InitializeCloud(connected, mongodb) ==
    /\ cyc.stage = "startup"
    /\ config \in {"ok", "no_connection_string"}
    /\ connected => config = "ok"
    /\ services' = [manager |-> connected, ai_service |-> connected,
                 mongodb |-> connected /\ mongodb]
    /\ cyc' = [cyc EXCEPT !.stage = "ready"]
    /\ UNCHANGED <<local_storage, upload_data, running, config, cmd>>
    /\ UNCHANGED <<dispatchVars, detectVars, mlVars>>

\* monitoring_loop, lines 474-475: the flag is set on entry.
EnterLoop ==
    /\ cyc.stage = "ready"
    /\ running' = TRUE
    /\ cyc' = [cyc EXCEPT !.stage = "loop"]
    /\ UNCHANGED <<services, local_storage, upload_data, config, cmd>>
    /\ UNCHANGED <<dispatchVars, detectVars, mlVars>>

\* monitoring_loop, line 477: the loop condition.
LoopContinues_ignoring_flag(r) == TRUE

LoopContinues(r) == r

\* monitoring_loop, lines 477-479: the next call of collect_and_process.
StartCycle ==
    /\ cyc.stage = "loop"
    /\ LoopContinues(running)
    /\ cyc.n < MaxCycles
    /\ cyc' = FreshCycle(cyc.n + 1)
    /\ UNCHANGED <<services, local_storage, upload_data, running, config, cmd>>
    /\ UNCHANGED <<dispatchVars, detectVars, mlVars>>

\* monitoring_loop, line 477 false: the loop is left and monitoring_loop
\* returns to main (main.py:544).
ExitLoop ==
    /\ cyc.stage = "loop"
    /\ ~LoopContinues(running)
    /\ cyc' = [cyc EXCEPT !.stage = "exited"]
    /\ UNCHANGED <<services, local_storage, upload_data, running, config, cmd>>
    /\ UNCHANGED <<dispatchVars, detectVars, mlVars>>

\* Where collect_and_process is after an exception of one of its statements:
\* line 464 catches it, the coroutine returns and line 480 follows.
AfterException_crashed == "crashed"

AfterException == "end"

\* An exception raised by the stage `at` reaches line 464: the rest of the
\* body is skipped.
Abort(at) == [cyc EXCEPT !.stage = AfterException, !.failed = at]

\* Line 384-385: the sample, an exception of the collector or a snapshot.
CollectSample(ok, S) ==
    /\ cyc.stage = "sample"
    /\ IF ok
       THEN /\ cyc' = [cyc EXCEPT !.stage = "threshold", !.sensor_data = S]
            /\ stats' = [stats EXCEPT !.total_readings = @ + 1]
       ELSE /\ S = NoSnapshot
            /\ cyc' = Abort("sample")
            /\ UNCHANGED stats
    /\ UNCHANGED <<services, local_storage, upload_data, running, config, cmd>>
    /\ UNCHANGED <<is_connected, upload_queue, pc, inflight, success, log,
                   handed, delivered, enqueued, counted>>
    /\ UNCHANGED <<detectVars, mlVars>>

\* Line 388: threshold_detector.detect(sensor_data).
ThresholdStage ==
    /\ cyc.stage = "threshold"
    /\ LET out == AiDetect(cyc.sensor_data, threshold_detector) IN
       cyc' = IF out.raised
              THEN Abort("threshold")
              ELSE [cyc EXCEPT !.stage = "ml", !.thr = out.is_anomaly,
                               !.violations = out.violations]
    /\ UNCHANGED <<services, local_storage, upload_data, running, config, cmd>>
    /\ UNCHANGED <<dispatchVars, detectVars, mlVars>>

\* Lines 391-408: the ML verdict.
MLStage(first, enough, train_ok, second) ==
    /\ cyc.stage = "ml"
    /\ cyc' = [cyc EXCEPT
                 !.stage = "combine",
                 !.ml_ran = local_ai_enabled,
                 !.ml = MLVerdict(local_ai_enabled, first, enough, train_ok,
                                  second),
                 !.ml_calls = MLCalls(local_ai_enabled, first, enough,
                                      train_ok, second)]
    /\ UNCHANGED <<services, local_storage, upload_data, running, config, cmd>>
    /\ UNCHANGED <<dispatchVars, detectVars, mlVars>>

\* Lines 410-414: the combined verdict and the anomaly counter.
Combine ==
    /\ cyc.stage = "combine"
    /\ LET a == CombineVerdict(cyc.thr, cyc.ml.is_anomaly) IN
       /\ cyc' = [cyc EXCEPT !.stage = "persist", !.is_anomaly = a]
       /\ stats' = IF a THEN [stats EXCEPT !.anomalies_detected = @ + 1]
                        ELSE stats
    /\ UNCHANGED <<services, local_storage, upload_data, running, config, cmd>>
    /\ UNCHANGED <<is_connected, upload_queue, pc, inflight, success, log,
                   handed, delivered, enqueued, counted>>
    /\ UNCHANGED <<detectVars, mlVars>>

\* Lines 417-421: save_sensor_data, which returns False when the write fails
\* (questdb_storage.py:93-168).
PersistLocal(ok) ==
    /\ cyc.stage = "persist"
    /\ local_storage' = IF ok
                        THEN [attempted |-> TRUE, written |-> TRUE,
                              is_anomaly |-> cyc.is_anomaly,
                              anomaly_score |-> cyc.ml.score]
                        ELSE [NoRow EXCEPT !.attempted = TRUE]
    /\ cyc' = [cyc EXCEPT !.stage = "cloud"]
    /\ UNCHANGED <<services, upload_data, running, config, cmd>>
    /\ UNCHANGED <<dispatchVars, detectVars, mlVars>>

\* Lines 424-428: the remote analysis.
CloudAnalysis(prediction) ==
    /\ cyc.stage = "cloud"
    /\ IF cloud_ai_enabled /\ services.ai_service
       THEN cyc' = IF prediction = "not_a_dict"
                   THEN Abort("cloud")
                   ELSE [cyc EXCEPT
                           !.stage = "dispatch",
                           !.cloud_verdict = prediction,
                           !.cloud_analysis = AnalyzeSensorData(prediction)]
       ELSE /\ prediction = "none"
            /\ cyc' = [cyc EXCEPT !.stage = "dispatch"]
    /\ UNCHANGED <<services, local_storage, upload_data, running, config, cmd>>
    /\ UNCHANGED <<dispatchVars, detectVars, mlVars>>

\* Lines 431-443: the payload is built and upload_sensor_data awaited.
Dispatch ==
    /\ cyc.stage = "dispatch"
    /\ IF services.manager
       THEN /\ upload_data' = BuildPayload(cyc)
            /\ cyc' = [cyc EXCEPT !.stage = "uploading"]
       ELSE /\ cyc' = [cyc EXCEPT !.stage = "secondary"]
            /\ UNCHANGED upload_data
    /\ UNCHANGED <<services, local_storage, running, config, cmd>>
    /\ UNCHANGED <<dispatchVars, detectVars, mlVars>>

\* Lines 443-447: upload_sensor_data returns and is counted.
UploadReturns(ok) ==
    /\ cyc.stage = "uploading"
    /\ stats' = CountUpload(stats, ok)
    /\ cyc' = [cyc EXCEPT !.stage = "secondary"]
    /\ UNCHANGED <<services, local_storage, upload_data, running, config, cmd>>
    /\ UNCHANGED <<is_connected, upload_queue, pc, inflight, success, log,
                   handed, delivered, enqueued, counted>>
    /\ UNCHANGED <<detectVars, mlVars>>

\* Lines 450-462: the MongoDB write, then the return of collect_and_process.
PersistSecondary ==
    /\ cyc.stage = "secondary"
    /\ cyc' = [cyc EXCEPT !.stage = "end"]
    /\ UNCHANGED <<services, local_storage, upload_data, running, config, cmd>>
    /\ UNCHANGED <<dispatchVars, detectVars, mlVars>>

\* monitoring_loop, line 480: collect_and_process has returned, its locals
\* are gone and the loop sleeps ("idle"); failed keeps how the call ended
\* until the next call.
Sleep ==
    /\ cyc.stage = "end"
    /\ cyc' = [FreshCycle(cyc.n) EXCEPT !.stage = "idle",
                                        !.failed = cyc.failed]
    /\ local_storage' = NoRow
    /\ upload_data' = NoPayload
    /\ UNCHANGED <<services, running, config, cmd>>
    /\ UNCHANGED <<dispatchVars, detectVars, mlVars>>

\* monitoring_loop, line 480 to line 477: asyncio.sleep returns and the loop
\* condition is next.
Wake ==
    /\ cyc.stage = "idle"
    /\ cyc' = [cyc EXCEPT !.stage = "loop"]
    /\ UNCHANGED <<services, local_storage, upload_data, running, config, cmd>>
    /\ UNCHANGED <<dispatchVars, detectVars, mlVars>>

\* The event loop runs a handler only where collect_and_process awaits
\* (line 443) or the loop sleeps (line 480).
AtAwait == cyc.stage \in {"idle", "uploading"}

\* PiNetworkMonitor.shutdown, main.py:501-512. It runs as the task the
\* signal handler creates (main.py:528-533; the handlers are installed after
\* initialize_cloud, and the task gets the event loop at the first await of
\* monitoring_loop or later), and once more when monitoring_loop has
\* returned (main.py:547). iot_client.disconnect clears is_connected
\* (cloud_integration.py:56-61).
Shutdown ==
    /\ AtAwait \/ cyc.stage = "exited"
    /\ running' = FALSE
    /\ is_connected' = FALSE
    /\ cyc' = IF cyc.stage = "exited" THEN [cyc EXCEPT !.stage = "stopped"]
                                      ELSE cyc
    /\ UNCHANGED <<services, local_storage, upload_data, config, cmd>>
    /\ UNCHANGED <<upload_queue, pc, inflight, success, log, handed,
                   delivered, enqueued, counted, stats>>
    /\ UNCHANGED <<detectVars, mlVars>>

CycleInit ==
    /\ services = [manager |-> FALSE, ai_service |-> FALSE, mongodb |-> FALSE]
    /\ cyc = [FreshCycle(0) EXCEPT !.stage = "startup"]
    /\ local_storage = NoRow
    /\ upload_data = NoPayload
    /\ running = FALSE
    /\ config = "unloaded"
    /\ cmd = "none"

NextCycle ==
    \/ \E outcome \in ConfigOutcomes : LoadConfig(outcome)
    \/ \E connected, mongodb \in BOOLEAN : InitializeCloud(connected, mongodb)
    \/ EnterLoop
    \/ StartCycle
    \/ \E S \in CycleSnapshots : CollectSample(TRUE, S)
    \/ CollectSample(FALSE, NoSnapshot)
    \/ ThresholdStage
    \/ \E first, second \in PredictOutcomes, enough, train_ok \in BOOLEAN :
          MLStage(first, enough, train_ok, second)
    \/ Combine
    \/ \E ok \in BOOLEAN : PersistLocal(ok)
    \/ \E prediction \in CloudPredictions : CloudAnalysis(prediction)
    \/ Dispatch
    \/ \E ok \in {"True", "False"} : UploadReturns(ok)
    \/ PersistSecondary
    \/ Sleep
    \/ Wake
    \/ /\ AtAwait
       /\ \E local, cloudf \in Flag, has_thr \in BOOLEAN :
             ApplyConfigUpdate("twin_patch", local, cloudf, has_thr, EmptyMap)

\* The snapshots sampled under SpecLoop: all readings inside their ranges,
\* the temperature possibly absent.
LoopSnapshots ==
    {S \in CycleSnapshots : /\ S.memory_percent = Num(50)
                            /\ S.cpu_temperature \in {Num(50), NoneReading}}

\* A step of the main coroutine: main (main.py:515-547), monitoring_loop and
\* collect_and_process, with every outcome of every stage.
LoopStep ==
    \/ LoadConfig("ok")
    \/ \E connected \in BOOLEAN : InitializeCloud(connected, FALSE)
    \/ EnterLoop
    \/ StartCycle
    \/ ExitLoop
    \/ \E S \in LoopSnapshots : CollectSample(TRUE, S)
    \/ CollectSample(FALSE, NoSnapshot)
    \/ ThresholdStage
    \/ \E first, second \in PredictOutcomes, enough, train_ok \in BOOLEAN :
          MLStage(first, enough, train_ok, second)
    \/ Combine
    \/ \E ok \in BOOLEAN : PersistLocal(ok)
    \/ \E prediction \in CloudPredictions : CloudAnalysis(prediction)
    \/ Dispatch
    \/ \E ok \in {"True", "False"} : UploadReturns(ok)
    \/ PersistSecondary
    \/ Sleep
    \/ Wake

\* _execute_command("collect_now"), main.py:324-325, reached from a cloud
\* message (main.py:127-141, cloud_integration.py:113-127) where the main
\* coroutine is suspended. The handlers exist when connect succeeded
\* (main.py:105). The call runs collect_and_process from line 382 to the
\* await of upload_sensor_data (line 443) without suspending: a reading is
\* counted, and an anomaly if one is flagged. ok is FALSE when the collector
\* raises.
CollectNow(ok, anomaly) ==
    /\ AtAwait
    /\ services.manager
    /\ cmd = "none"
    /\ IF ok
       THEN /\ cmd' = "uploading"
            /\ stats' = [stats EXCEPT
                           !.total_readings = @ + 1,
                           !.anomalies_detected = IF anomaly THEN @ + 1 ELSE @]
       ELSE /\ ~anomaly
            /\ cmd' = "returned"
            /\ UNCHANGED stats
    /\ UNCHANGED <<services, cyc, local_storage, upload_data, running, config>>
    /\ UNCHANGED <<is_connected, upload_queue, pc, inflight, success, log,
                   handed, delivered, enqueued, counted>>
    /\ UNCHANGED <<detectVars, mlVars>>

\* The upload awaited by the command's call returns and is counted
\* (main.py:443-447); the call then returns.
CollectNowReturns(ok) ==
    /\ cmd = "uploading"
    /\ cmd' = "returned"
    /\ stats' = CountUpload(stats, ok)
    /\ UNCHANGED <<services, cyc, local_storage, upload_data, running, config>>
    /\ UNCHANGED <<is_connected, upload_queue, pc, inflight, success, log,
                   handed, delivered, enqueued, counted>>
    /\ UNCHANGED <<detectVars, mlVars>>

\* _handle_cloud_method, main.py:143-196, for the methods that read:
\* get_statistics returns self.stats, get_status a dict around it,
\* restart_monitoring an acknowledgement.
ReadingMethods == {"get_status", "get_statistics", "restart_monitoring"}

HandleCloudMethod(method_name) ==
    /\ AtAwait
    /\ services.manager
    /\ method_name \in ReadingMethods
    /\ handler_out' = [path |-> method_name, error |-> "none"]
    /\ UNCHANGED <<threshold_detector, thresholds, local_ai_enabled,
                   cloud_ai_enabled, detect_in, detect_out>>
    /\ UNCHANGED <<dispatchVars, cycleVars, mlVars>>

\* The main coroutine, the stop request and the handler that switches the
\* remote analysis on or off.
NextLoop ==
    \/ LoopStep
    \/ Shutdown
    \/ /\ AtAwait
       /\ \E cloudf \in {"True", "False"} :
             ApplyConfigUpdate("twin_patch", "absent", cloudf, FALSE, EmptyMap)

\* The main coroutine with every callback of the IoT Hub client: twin
\* patches, direct methods, the collect_now command, and the stop request.
NextCommands ==
    \/ NextLoop
    \/ \E ok, anomaly \in BOOLEAN : CollectNow(ok, anomaly)
    \/ \E ok \in {"True", "False"} : CollectNowReturns(ok)
    \/ \E method_name \in ReadingMethods : HandleCloudMethod(method_name)

----------------------------------------------------------------------------
\* The upload queue under every interleaving of its callers

Init == DispatchInit /\ DetectInit /\ CycleInit /\ MLInit

Next ==
    \/ \E c \in Payloads : Upload(c)
    \/ \E c \in Payloads, o \in SendOutcomes : SendDone(c, o)
    \/ \E c \in Payloads, o \in SendOutcomes : FlushSendDone(c, o)
    \/ \E c \in Payloads : FlushSleepDone(c)
    \/ Connect
    \/ Disconnect

Spec == Init /\ [][Next]_vars

SpecDetect == Init /\ [][NextDetect]_vars

SpecConfig == Init /\ [][NextConfig]_vars

SpecCycle == Init /\ [][NextCycle]_vars

SpecML == Init /\ [][NextML]_vars

SpecCommands == Init /\ [][NextCommands]_vars

\* Fairness of the main coroutine: it runs until its next await, and what it
\* awaits (the upload, asyncio.sleep) finishes. Nothing obliges a signal or
\* a twin patch to arrive.
SpecLoop ==
    /\ Init
    /\ [][NextLoop]_vars
    /\ WF_vars(LoopStep)

\* Fairness of the event loop: a coroutine whose awaited send or sleep has
\* finished is resumed (asyncio runs every ready callback).
FairSpec ==
    /\ Spec
    /\ \A c \in Payloads :
          /\ WF_vars(\E o \in SendOutcomes : SendDone(c, o))
          /\ WF_vars(\E o \in SendOutcomes : FlushSendDone(c, o))
          /\ WF_vars(FlushSleepDone(c))

----------------------------------------------------------------------------
\* Properties of the upload queue

Range(q) == {q[i] : i \in 1..Len(q)}

\* The queued payloads among those given to the transport, in hand-over order.
HandedFromQueue == SelectSeq(handed, LAMBDA p : p \in Range(enqueued))

\* Payload p has been passed to upload_sensor_data.
Passed(p) == pc[p] # "idle"

\* Payload p is at the transport: a send of it is awaited.
AtTransport(p) ==
    \/ pc[p] = "send"
    \/ \E c \in Payloads : pc[c] = "flush_send" /\ inflight[c] = p

\* Payload p was passed in and is neither delivered, queued nor being sent.
Lost(p) ==
    /\ Passed(p)
    /\ p \notin delivered
    /\ p \notin Range(upload_queue)
    /\ ~AtTransport(p)

\* Call c dropped its payload at capacity: it returned without the payload
\* being queued or given to the transport.
DroppedAtCapacity(c) ==
    /\ pc[c] = "returned"
    /\ c \notin Range(enqueued)
    /\ c \notin Range(handed)

\* Call c buffered its payload.
Buffered(c) == pc[c] = "returned" /\ c \in Range(enqueued)

\* What collect_and_process sees of call c: the return value and the counter.
CallerOutcome(c) == <<success[c], counted[c]>>

\* C1: the queue never holds more than max_queue_size entries, and an
\* upload_sensor_data call made while disconnected with the queue full leaves
\* the queue exactly as it was.
C1_QueueBounded ==
    /\ [](Len(upload_queue) <= max_queue_size)
    /\ [][\A c \in Payloads :
            (/\ pc[c] = "idle" /\ pc'[c] # "idle"
             /\ ~is_connected
             /\ Len(upload_queue) >= max_queue_size)
            => upload_queue' = upload_queue]_vars

C1_Witness ==
    \E c \in Payloads :
        /\ DroppedAtCapacity(c)
        /\ log[c] = QueueFullLog
        /\ Len(upload_queue) = max_queue_size

\* C2: whenever a payload passed to upload_sensor_data stops being queued or
\* in transit without having been delivered, the failure counter goes up in
\* that same step; this includes a payload popped by _flush_queue whose send
\* fails.
C2_DropsCounted ==
    [][\A p \in Payloads :
         (~Lost(p) /\ Lost(p)')
         => stats'.failed_uploads = stats.failed_uploads + 1]_vars

\* C3: the payloads buffered while disconnected are given to the transport
\* once each and in the order they were buffered: what was enqueued is what
\* was handed over from the queue followed by what is still queued.
C3_FifoExactlyOnce == enqueued = HandedFromQueue \o upload_queue

C3_Witness ==
    /\ Len(enqueued) = max_queue_size
    /\ Len(enqueued) >= 2
    /\ upload_queue = <<>>
    /\ HandedFromQueue = enqueued
    /\ Range(enqueued) \subseteq delivered
    /\ is_connected

\* C4: a call made while disconnected with room in the queue appends its
\* payload at the tail, gives nothing to the transport, does not suspend and
\* returns False.
C4_BufferWhenDisconnected ==
    [][\A c \in Payloads :
         (/\ pc[c] = "idle" /\ pc'[c] # "idle"
          /\ ~is_connected
          /\ Len(upload_queue) < max_queue_size)
         => /\ upload_queue' = Append(upload_queue, c)
            /\ handed' = handed
            /\ pc'[c] = "returned"
            /\ success'[c] = "False"]_vars

C4_Witness ==
    \E c \in Payloads :
        /\ Buffered(c)
        /\ success[c] = "False"
        /\ Len(upload_queue) >= 2
        /\ upload_queue[Len(upload_queue)] = c
        /\ c \notin Range(handed)

\* C5 as claimed: the caller of upload_sensor_data sees a different outcome
\* (return value or counter) for a payload dropped at capacity than for a
\* buffered payload.
C5_DropDistinctForCaller ==
    \A c, d \in Payloads :
        DroppedAtCapacity(c) /\ Buffered(d)
        => CallerOutcome(c) # CallerOutcome(d)

\* C5 as amended: a payload dropped at capacity and a buffered payload both
\* return False and both count as failed_uploads; they differ in the log
\* record (error "Upload queue full" against warning "Added to queue").
C5_DropDistinctInLogOnly ==
    \A c \in Payloads :
        /\ DroppedAtCapacity(c)
           => /\ CallerOutcome(c) = <<"False", "failed_uploads">>
              /\ log[c] = "error: Upload queue full"
        /\ Buffered(c)
           => /\ CallerOutcome(c) = <<"False", "failed_uploads">>
              /\ log[c] = "warning: Added to queue"

C5_Witness ==
    \E c, d \in Payloads :
        /\ DroppedAtCapacity(c)
        /\ Buffered(d)
        /\ d \in Range(upload_queue)

\* C6: while the connectivity flag is false no entry leaves the queue: the
\* queue after any step still begins with the whole queue before it, so a
\* flush that finds the flag false stops and leaves the rest in order.
C6_FlushStopsWhenDisconnected ==
    [][~is_connected
       => /\ Len(upload_queue') >= Len(upload_queue)
          /\ SubSeq(upload_queue', 1, Len(upload_queue)) = upload_queue]_vars

C6_Witness ==
    \E c \in Payloads :
        /\ pc[c] = "returned"
        /\ inflight[c] # 0
        /\ ~is_connected
        /\ upload_queue # <<>>
        /\ Head(upload_queue) < c
        /\ enqueued = HandedFromQueue \o upload_queue

\* C7: no exception leaves upload_sensor_data whatever the sends do, a call
\* that has ended has returned a boolean, and every call that was started ends.
C7_UploadNeverRaises ==
    /\ [](\A c \in Payloads :
            /\ pc[c] # "raised"
            /\ pc[c] = "returned" => success[c] \in {"True", "False"})
    /\ \A c \in Payloads : (pc[c] # "idle") ~> (pc[c] = "returned")

C7_Witness ==
    \E c, d \in Payloads :
        /\ pc[c] = "returned" /\ success[c] = "False"
        /\ log[c] = "error: Failed to send telemetry"
        /\ pc[d] = "returned" /\ success[d] = "True"
        /\ inflight[d] # 0 /\ inflight[d] \notin delivered

----------------------------------------------------------------------------
\* Properties of the monitoring cycle

\* The stages of collect_and_process after the combine step.
PastCombine == {"persist", "cloud", "dispatch", "uploading", "secondary", "end"}

\* C8: in a cycle that has passed the combine step, the is_anomaly value of
\* the cycle, of the row written locally and of the outbound payload is
\* (threshold verdict OR local ML verdict), and is the threshold verdict alone
\* when the local AI was disabled; the anomaly counter moves only at the
\* combine step, by one exactly when that value is true, so the remote verdict
\* changes neither the value nor the counter.
C8_CombinedVerdict ==
    /\ [](LET v == cyc.thr \/ cyc.ml.is_anomaly IN
            /\ cyc.stage \in PastCombine =>
                  /\ cyc.is_anomaly = v
                  /\ ~cyc.ml_ran => cyc.is_anomaly = cyc.thr
            /\ local_storage.written => local_storage.is_anomaly = v
            /\ upload_data.built => upload_data.is_anomaly = v)
    /\ [][/\ stats'.anomalies_detected # stats.anomalies_detected
             => cyc.stage = "combine"
          /\ cyc.stage = "combine" /\ cyc'.stage = "persist"
             => stats'.anomalies_detected =
                   stats.anomalies_detected
                   + (IF cyc.thr \/ cyc.ml.is_anomaly THEN 1 ELSE 0)
          /\ cyc.stage \in PastCombine /\ cyc'.stage \in PastCombine
             => cyc'.is_anomaly = cyc.is_anomaly
         ]_vars

C8_Witness ==
    /\ cyc.stage = "secondary"
    /\ ~cyc.thr /\ cyc.ml.is_anomaly /\ cyc.is_anomaly
    /\ cyc.cloud_verdict = "normal"
    /\ local_storage.written /\ local_storage.is_anomaly
    /\ upload_data.built /\ upload_data.is_anomaly
    /\ upload_data.cloud_analysis.available
    /\ ~upload_data.cloud_analysis.is_anomaly
    /\ stats.anomalies_detected = 1

----------------------------------------------------------------------------
\* Properties of the threshold detector

\* Metric m is present in S and in T and its value is above T's max or below
\* T's min, each bound counting when it is defined.
BoundViolated(S, T, m) ==
    /\ S[m].kind = "value"
    /\ m \in DOMAIN T
    /\ \/ "max" \in DOMAIN T[m] /\ S[m].v > T[m]["max"]
       \/ "min" \in DOMAIN T[m] /\ S[m].v < T[m]["min"]

ViolatingMetrics(S, T) == {m \in MetricNames : BoundViolated(S, T, m)}

\* The thresholds the last detect call read.
ThresholdsOf(out) ==
    IF out.detector = "ai_models" THEN threshold_detector ELSE thresholds

\* C9: a detect call that returns flags an anomaly exactly when some metric
\* present in the snapshot and in the threshold set is above its max or below
\* its min, and lists each such metric once and no other metric.
C9_DetectIffBoundViolated ==
    (detect_out.detector # "none" /\ ~detect_out.raised)
    => LET V == ViolatingMetrics(detect_in, ThresholdsOf(detect_out)) IN
       /\ detect_out.is_anomaly <=> V # {}
       /\ Range(detect_out.violations) = V
       /\ Len(detect_out.violations) = Cardinality(V)

\* The merge of a partial map into a threshold set, bound by bound.
RecursiveMerge(T, P) ==
    [m \in DOMAIN T \cup DOMAIN P |->
        IF m \notin DOMAIN P THEN T[m]
        ELSE IF m \notin DOMAIN T THEN P[m]
        ELSE [b \in DOMAIN T[m] \cup DOMAIN P[m] |->
                 IF b \in DOMAIN P[m] THEN P[m][b] ELSE T[m][b]]]

\* What a partial map must leave alone: the metrics it does not name, and the
\* bounds it does not name of the metrics it names.
FrameKept(T, P, T2) ==
    \A m \in DOMAIN T :
        /\ m \in DOMAIN T2
        /\ m \notin DOMAIN P => T2[m] = T[m]
        /\ m \in DOMAIN P =>
              \A b \in DOMAIN T[m] \ DOMAIN P[m] :
                  b \in DOMAIN T2[m] /\ T2[m][b] = T[m][b]

\* C10: update_thresholds merges recursively. A direct call keeps every
\* metric and bound the partial map does not name, and a partial map arriving
\* by config_update, update_config, updateConfig or a twin patch is merged
\* into the orchestrator's thresholds.
C10_UpdateIsRecursiveMerge ==
    [][/\ \A P \in PartialMaps :
            thresholds' = update_thresholds(thresholds, P)
            => FrameKept(thresholds, P, thresholds')
       /\ \A P \in PartialMaps :
            (\E path \in {"config_update", "update_config"} :
                 UpdateConfiguration(path, TRUE, P))
            => threshold_detector' = RecursiveMerge(threshold_detector, P)
       /\ \A P \in PartialMaps :
            (\E path \in {"updateConfig", "twin_patch"}, local, cloud \in Flag :
                 ApplyConfigUpdate(path, local, cloud, TRUE, P))
            => threshold_detector' = RecursiveMerge(threshold_detector, P)
      ]_vars

----------------------------------------------------------------------------
\* Properties of the detectors on partial snapshots

\* C11: on every snapshot, with any groups absent and any metric missing or
\* None, detect and extract_features return without raising, and detect
\* reports no metric that has no value in the snapshot.
C11_PartialSnapshotsTolerated ==
    /\ detect_out.detector # "none"
       => /\ ~detect_out.raised
          /\ \A m \in Range(detect_out.violations) : detect_in[m].kind = "value"
    /\ ml_out.op = "extract_features" => ~ml_out.raised

----------------------------------------------------------------------------
\* Properties of the AnomalyDetector

\* No artifact was loaded from either backend and no train call has fitted
\* the model.
Untrained(d) == d.built /\ ~(d.onnx_model /\ d.onnx_scaler) /\ ~PickleLive(d)

\* C12: predict on an untrained detector, given a snapshot with every group
\* present, returns (False, 0.0) and does not raise.
C12_UntrainedPredictReturnsDefault ==
    (/\ ml_out.op = "predict"
     /\ Untrained(ml_detector)
     /\ ~ExtractRaises(ml_out.input))
    => /\ ~ml_out.raised
       /\ ~ml_out.is_anomaly
       /\ ml_out.score = 0

----------------------------------------------------------------------------
\* Properties of the lazy retrain

\* The stages of collect_and_process after the ML stage.
PastML == {"combine"} \cup PastCombine

C14_TrainBelowMinimumIsNoOp ==
    [][\A n \in SampleCounts, save_ok \in BOOLEAN :
         (n < MinSamples /\ Train(n, save_ok))
         => /\ ml_detector' = ml_detector
            /\ artifacts' = artifacts
            /\ ~ml_out'.raised]_vars

\* A step in which a model was fitted and its artifacts were to be written.
FitAndPersist ==
    \/ TrainAndSaveModels("both")
    \/ TrainAndSaveModels("scaler")
    \/ TrainAndSaveModels("none")
    \/ \E n \in SampleCounts, save_ok \in BOOLEAN :
          Train(n, save_ok) /\ PickleLive(ml_detector') /\ ~ml_out'.raised
                            /\ ~TooFewSamples(ml_detector.cls, n)

\* C15: a step that fits the model attempts the ONNX export, and writes the
\* pickle artifact exactly when that export raised.
C15_OnnxExportFirst ==
    [][FitAndPersist
       => /\ ml_out'.exported # "not_attempted"
          /\ ml_out'.saved <=> ml_out'.exported # "both"]_vars

\* C16: the constructor does not raise; with use_onnx it ends with the ONNX
\* sessions live exactly when both were created; otherwise the pickle
\* artifact is live exactly when model.pkl holds a loadable dict; otherwise
\* the detector has a new unfitted model; the two backends are never both live.
C16_InitBackendOrder ==
    ml_out.op = "init"
    => LET d == ml_detector IN
       /\ ~ml_out.raised
       /\ d.built
       /\ ~(OnnxLive(d) /\ PickleLive(d))
       /\ d.cls = "ai_models"
          => (OnnxLive(d) <=> (ml_out.use_onnx /\ ml_out.model_ok
                               /\ ml_out.scaler_ok))
       /\ ~OnnxLive(d) => (PickleLive(d) <=> artifacts.pickle = "dict")
       /\ ~OnnxLive(d) /\ ~PickleLive(d)
          => d.model = "unfitted" /\ d.scaler = "unfitted"

C16_Witness ==
    /\ ml_out.op = "init"
    /\ ml_detector.cls = "ai_models"
    /\ ml_out.use_onnx /\ ml_out.model_ok /\ ~ml_out.scaler_ok
    /\ artifacts.onnx_scaler = "corrupt"
    /\ artifacts.pickle = "dict"
    /\ ml_detector.onnx_model
    /\ ~OnnxLive(ml_detector)
    /\ PickleLive(ml_detector)

\* C17: whichever backend predict used, the label of the model means the
\* same: an inlier gives is_anomaly False, an outlier is_anomaly True.
C17_BackendsAgreeOnLabel ==
    (ml_out.op = "predict" /\ ~ml_out.raised /\ ml_out.label \in Labels)
    => (ml_out.is_anomaly <=> ml_out.label = Outlier)

\* C18: a cycle in which a stage other than the sample failed has still made
\* the local write and, with a cloud manager, built and handed over the
\* payload; only a failed sample ends the cycle without them.
C18_StageFailureContained ==
    (cyc.stage = "end" /\ cyc.failed # "sample")
    => /\ cyc.failed = "none"
       /\ local_storage.attempted
       /\ services.manager => upload_data.built

\* The stages of one call of collect_and_process.
InCycle == {"sample", "threshold", "ml", "combine", "persist", "cloud",
            "dispatch", "uploading", "secondary", "end"}

\* C19: no outcome of a stage ends the loop. The loop is left only with the
\* flag down; every started cycle reaches the sleep; and from the sleep,
\* unless a stop is requested, the next cycle starts (while the behaviour has
\* cycles left).
C19_LoopSurvivesStageFailures ==
    /\ [][cyc'.stage = "exited" => ~running]_vars
    /\ (cyc.stage \in InCycle) ~> (cyc.stage = "idle")
    /\ (cyc.stage = "idle" /\ cyc.n < MaxCycles)
          ~> (~running \/ cyc.stage = "sample")

\* The loop is back at its condition, still running, after a cycle whose
\* threshold stage raised.
C19_Witness ==
    /\ cyc.stage = "loop"
    /\ running
    /\ cyc.failed = "threshold"
    /\ cyc.n < MaxCycles

\* C20: with the flag down no call of collect_and_process begins; the flag
\* goes up only on entry of monitoring_loop; the loop is left only from its
\* condition, so a cycle in progress runs to its sleep; and once the flag is
\* down in the loop, monitoring_loop returns.
C20_StopIsCooperative ==
    /\ [][~running => cyc'.n = cyc.n]_vars
    /\ [][(running' /\ ~running) => cyc.stage = "ready"]_vars
    /\ [][cyc'.stage = "exited" => cyc.stage = "loop"]_vars
    /\ (~running /\ cyc.stage \in InCycle) ~> (cyc.stage = "idle")
    /\ (~running /\ cyc.stage \notin {"startup", "ready"})
          ~> (cyc.stage \in {"exited", "stopped"})

\* monitoring_loop has returned on a stop request made during the first
\* cycle's upload, with cycles left to run.
C20_Witness ==
    /\ cyc.stage = "exited"
    /\ ~running
    /\ cyc.n = 1
    /\ cyc.n < MaxCycles
    /\ stats.cloud_uploads + stats.failed_uploads = 1

\* The four counters of PiNetworkMonitor.stats.
Counters == {"total_readings", "anomalies_detected", "cloud_uploads",
             "failed_uploads"}

\* C21: no step of the orchestrator (a stage of a cycle, the collect_now
\* command, a direct method, a twin patch, shutdown) lowers one of the four
\* counters.
C21_CountersMonotonic ==
    [][\A k \in Counters : stats'[k] >= stats[k]]_vars

\* Readings, an anomaly, a counted upload and a counted failure, and the
\* stop request made after them.
C21_Witness ==
    /\ stats.total_readings >= 2
    /\ stats.anomalies_detected >= 1
    /\ stats.cloud_uploads >= 1
    /\ stats.failed_uploads >= 1
    /\ cmd = "returned"
    /\ handler_out.path = "get_statistics"
    /\ cyc.stage = "stopped"

\* The loop has been entered.
EnteredLoop == cyc.stage \in InCycle \cup {"loop", "idle", "exited", "stopped"}

\* C22: with a configuration that cannot be loaded, or one without the IoT
\* Hub connection string, the process does not enter the monitoring loop.
C22_ConfigErrorIsFatal ==
    config \in {"unreadable", "no_connection_string"} => ~EnteredLoop

\* C23: a payload that was built carries the local analysis of its cycle,
\* and carries a cloud_analysis field exactly when the remote model gave a
\* prediction in that cycle.
C23_PayloadShape ==
    upload_data.built
    => /\ upload_data.is_anomaly = cyc.is_anomaly
       /\ upload_data.ml_score = cyc.ml.score
       /\ upload_data.threshold_violations = cyc.violations
       /\ upload_data.cloud_analysis.present
             <=> cyc.cloud_verdict \in {"normal", "anomaly"}

\* The place of each stage in the order Sample, Detect(threshold),
\* Detect(ml), Detect(remote), Combine, Persist(local), BuildPayload,
\* Dispatch, Persist(secondary), Sleep.
ClaimedRank ==
    [stage \in InCycle \cup {"idle"} |->
        CASE stage = "sample"    -> 1
          [] stage = "threshold" -> 2
          [] stage = "ml"        -> 3
          [] stage = "cloud"     -> 4
          [] stage = "combine"   -> 5
          [] stage = "persist"   -> 6
          [] stage = "dispatch"  -> 7
          [] stage = "uploading" -> 8
          [] stage = "secondary" -> 9
          [] stage = "end"       -> 10
          [] stage = "idle"      -> 11]

\* C24: inside a cycle a stage is followed only by a later stage of that
\* order; the remote analysis runs before the local write, and the dispatch
\* before the secondary write.
C24_StageOrder ==
    /\ [][(cyc.stage \in InCycle /\ cyc'.stage # cyc.stage)
             => /\ cyc'.stage \in InCycle \cup {"idle"}
                /\ ClaimedRank[cyc'.stage] > ClaimedRank[cyc.stage]]_vars
    /\ [](cyc.stage = "cloud" => ~local_storage.attempted)
    /\ [](cyc.stage = "secondary" /\ services.manager => upload_data.built)

\* A call of collect_and_process made by the monitoring loop has started and
\* not returned.
InProgress == cyc.stage \in InCycle \ {"end"}

\* C25: the call of collect_and_process made by a collect_now command is
\* never in progress while a call made by the monitoring loop is.
C25_CyclesNeverOverlap ==
    ~(InProgress /\ cmd = "uploading")

\* C26: after a call of train, returned or raised, the scaler and the model
\* of the detector come from the same fit.
C26_ModelSwapAtomic ==
    (ml_detector.built /\ ml_out.op = "train")
    => ml_detector.scaler_gen = ml_detector.model_gen

\* The fit behind the backend predict uses: 0 for the ONNX sessions or a
\* model.pkl of the deployment, -1 when nothing fitted is live.
LiveGen(d) ==
    IF OnnxLive(d) THEN 0
    ELSE IF PickleLive(d) THEN d.model_gen
    ELSE -1

\* C29: once train has returned from a fit on at least MinSamples samples,
\* the detector of this process and of every later process predicts with
\* that fit.
C29_NewModelAnswers ==
    (ml_detector.built /\ fits.returned > 0 /\ fits.n >= MinSamples)
    => LiveGen(ml_detector) = fits.returned

\* Call c is inside _flush_queue, at one of its awaits.
Flushing(c) == pc[c] \in {"flush_send", "flush_sleep"}

\* C27: also with two flushes in progress at once, no payload is given to
\* the transport twice, a flush pops only from a queue that has an entry (its
\* head), and the payloads leave the queue for the transport in the order
\* they were enqueued.
C27_OverlappingFlushes ==
    /\ [](\A i, j \in 1..Len(handed) : handed[i] = handed[j] => i = j)
    /\ [](/\ Len(HandedFromQueue) <= Len(enqueued)
          /\ HandedFromQueue = SubSeq(enqueued, 1, Len(HandedFromQueue)))
    /\ [][\A c \in Payloads :
            inflight'[c] # inflight[c]
            => /\ upload_queue # <<>>
               /\ inflight'[c] = Head(upload_queue)
               /\ upload_queue' = Tail(upload_queue)]_vars

\* Two calls are inside _flush_queue at once, each with an entry it popped.
C27_Witness ==
    \E c, d \in Payloads :
        /\ c # d
        /\ Flushing(c) /\ Flushing(d)
        /\ inflight[c] # 0 /\ inflight[d] # 0
        /\ inflight[c] # inflight[d]
        /\ enqueued = HandedFromQueue \o upload_queue

\* Call c was made while connected, its own send failed, and it has returned.
FailedDirect(c) ==
    /\ pc[c] = "returned"
    /\ log[c] = "error: Failed to send telemetry"

\* C28: when the send of a call made while connected fails, that step leaves
\* the queue as it was, starts no flush and returns False; the payload is
\* never in the queue and is given to the transport that once only.
C28_FailedSendNotQueued ==
    /\ [][\A c \in Payloads, o \in SendOutcomes \ {"ok"} :
            SendDone(c, o)
            => /\ upload_queue' = upload_queue
               /\ enqueued' = enqueued
               /\ handed' = handed
               /\ inflight' = inflight
               /\ pc'[c] = "returned"
               /\ success'[c] = "False"]_vars
    /\ [](\A c \in Payloads :
            FailedDirect(c)
            => /\ c \notin Range(enqueued)
               /\ c \notin Range(upload_queue)
               /\ c \notin delivered
               /\ Cardinality({i \in 1..Len(handed) : handed[i] = c}) = 1)

\* A failed send with entries waiting in the queue and the connection up,
\* followed by a later call.
C28_Witness ==
    \E c, d \in Payloads :
        /\ FailedDirect(c)
        /\ success[c] = "False"
        /\ upload_queue # <<>>
        /\ is_connected
        /\ d > c /\ pc[d] = "returned" /\ success[d] = "True"

\* C30: every cycle whose sample succeeded builds a payload, hands it to the
\* dispatch manager and counts one upload or one failed upload, so that
\* between cycles the two upload counters add up to the readings; this also
\* when the connection failed at startup.
C30_EveryCycleDispatches ==
    /\ (cyc.stage = "end" /\ cyc.sensor_data # NoSnapshot) => upload_data.built
    /\ cyc.stage \in {"end", "idle", "loop"}
       => stats.cloud_uploads + stats.failed_uploads = stats.total_readings

====
